---- MODULE Spec2Model ----
(***************************************************************************)
(* The item lookup tool rs-cli (Tools/cli): the print-items command        *)
(* (main, print_items, fetch_items of src/bin/rs-cli.rs) and the library   *)
(* loader load_all (src/core/item_definition.rs), as a state machine.      *)
(*                                                                         *)
(* Text is a sequence of one-character strings, so that the regular        *)
(* expressions can look inside a name.  Option<T> is a sequence of length  *)
(* 0 (None) or 1 (Some).  Result<T> is a record with the field ok.         *)
(***************************************************************************)
EXTENDS Integers, Sequences, FiniteSets, TLC

VARIABLES
    cmd,                  \* "print_items" (the CLI command) or "load_all" (the library call)
    regex_pattern,        \* FindItems.regex_pattern: Vec<String>
    ids_json,             \* FindItems.ids_json: Vec<PathBuf>
    id_name_tuples_json,  \* FindItems.id_name_tuples_json: Vec<PathBuf>
    dir,                  \* what read_dir found at FindItems.items_path, once it has looked
    pc,                   \* position of the run
    patterns,             \* fetch_items: the compiled patterns
    desired_ids,          \* fetch_items: HashSet<i32>
    todo,                 \* fetch_items: the auxiliary paths the current for loop still has to visit
    filepaths,            \* fetch_items / load_all: the directory entries still to visit
    items,                \* fetch_items: HashSet<ItemDefinition>
    all_items,            \* load_all: Vec<ItemDefinition>
    sorted_items,         \* print_items: the sorted Vec
    io,                   \* the file-system operations performed so far
    stdout,               \* what println! wrote, one element per call
    stderr,               \* what the logger wrote, one element per message
    result,               \* the Result the command returned to its caller
    exit_code             \* the exit status of the process, None while it runs

vars == <<cmd, regex_pattern, ids_json, id_name_tuples_json, dir, pc, patterns,
          desired_ids, todo, filepaths, items, all_items, sorted_items, io,
          stdout, stderr, result, exit_code>>

(***************************************************************************)
(* Bounds of the model.                                                    *)
(***************************************************************************)
MaxFiles == 3
MaxPatterns == 2
MaxAuxFiles == 1

(***************************************************************************)
(* Option, Result, sequences.                                              *)
(***************************************************************************)
None == <<>>
Some(x) == <<x>>
UnwrapOr(o, d) == IF o = None THEN d ELSE o[1]

Ok(v) == [ok |-> TRUE, v |-> v]
Err(e) == [ok |-> FALSE, e |-> e]

SeqsUpTo(S, n) == UNION {[1..k -> S] : k \in 0..n}
Range(s) == {s[i] : i \in DOMAIN s}
Perms(S) == {s \in [1..Cardinality(S) -> S] : Range(s) = S}

Path(stem, ext) == [stem |-> stem, ext |-> ext]
Extension(path) == path.ext

(***************************************************************************)
(* JSON documents.  A document is the text of a file: whether it is        *)
(* well-formed JSON, its layout (white space, which no parser keeps) and   *)
(* the value it denotes.                                                   *)
(***************************************************************************)
JNull == <<"null">>
JBool(b) == <<"bool", b>>
JNum(n) == <<"num", n>>
JStr(s) == <<"str", s>>
JArr(xs) == <<"arr", xs>>
JObj(r) == <<"obj", r>>

Doc(layout, value) == [wellformed |-> TRUE, layout |-> layout, value |-> value]
Garbage == [wellformed |-> FALSE, layout |-> 0, value |-> JNull]

IsI32(j) == j[1] = "num" /\ j[2] >= -2147483647 - 1 /\ j[2] <= 2147483647
IsBool(j) == j[1] = "bool"
IsStr(j) == j[1] = "str"
IsStrArray5(j) == j[1] = "arr" /\ Len(j[2]) = 5 /\ \A i \in 1..5 : IsStr(j[2][i])

Absent(o, f) == f \notin DOMAIN o \/ o[f][1] = "null"
OptI32(o, f) == IF Absent(o, f) THEN None ELSE Some(o[f][2])
OptStr(o, f) == IF Absent(o, f) THEN None ELSE Some(o[f][2])
OptArr(o, f) == IF Absent(o, f) THEN None ELSE Some([i \in 1..5 |-> o[f][2][i][2]])

\* serde_json::from_str::<ItemDefinition>: the derived Deserialize wants the
\* five plain fields, takes a missing or null Option field as None and
\* ignores unknown fields.
DeserializeItemDefinition(doc) ==
    IF ~doc.wellformed \/ doc.value[1] # "obj" THEN Err("parse")
    ELSE LET o == doc.value[2] IN
        IF /\ {"id", "members", "team", "stackable", "value"} \subseteq DOMAIN o
           /\ IsI32(o.id) /\ IsBool(o.members) /\ IsI32(o.team)
           /\ IsBool(o.stackable) /\ IsI32(o.value)
           /\ \A f \in {"name", "description"} : Absent(o, f) \/ IsStr(o[f])
           /\ \A f \in {"ground_actions", "inventory_actions"} :
                  Absent(o, f) \/ IsStrArray5(o[f])
           /\ \A f \in {"note_graphic_id", "note_info_id"} : Absent(o, f) \/ IsI32(o[f])
        THEN Ok([id |-> o.id[2],
                 name |-> OptStr(o, "name"),
                 description |-> OptStr(o, "description"),
                 ground_actions |-> OptArr(o, "ground_actions"),
                 inventory_actions |-> OptArr(o, "inventory_actions"),
                 members |-> o.members[2],
                 note_graphic_id |-> OptI32(o, "note_graphic_id"),
                 note_info_id |-> OptI32(o, "note_info_id"),
                 team |-> o.team[2],
                 stackable |-> o.stackable[2],
                 value |-> o.value[2]])
        ELSE Err("parse")

\* serde_json::from_str::<Vec<i32>>
DeserializeIds(doc) ==
    IF ~doc.wellformed \/ doc.value[1] # "arr" THEN Err("parse")
    ELSE LET xs == doc.value[2] IN
        IF \A i \in DOMAIN xs : IsI32(xs[i])
        THEN Ok([i \in DOMAIN xs |-> xs[i][2]])
        ELSE Err("parse")

\* serde_json::from_str::<Vec<(i32, String)>>
DeserializeTuples(doc) ==
    IF ~doc.wellformed \/ doc.value[1] # "arr" THEN Err("parse")
    ELSE LET xs == doc.value[2] IN
        IF \A i \in DOMAIN xs :
               /\ xs[i][1] = "arr" /\ Len(xs[i][2]) = 2
               /\ IsI32(xs[i][2][1]) /\ IsStr(xs[i][2][2])
        THEN Ok([i \in DOMAIN xs |-> <<xs[i][2][1][2], xs[i][2][2][2]>>])
        ELSE Err("parse")

(***************************************************************************)
(* Regular expressions, for the patterns of the model: an optional ^, a    *)
(* body that is .* or literal characters, an optional $.  An unclosed      *)
(* group and a repetition with nothing to repeat do not compile.           *)
(***************************************************************************)
SubSeqFrom(s, i) == SubSeq(s, i, Len(s))

RegexNew(p) ==
    IF (\E i \in DOMAIN p : p[i] = "(") \/ (p # <<>> /\ p[1] = "*")
    THEN Err("regex")
    ELSE LET start == p # <<>> /\ p[1] = "^"
             p1 == IF start THEN SubSeqFrom(p, 2) ELSE p
             end == p1 # <<>> /\ p1[Len(p1)] = "$"
             body == IF end THEN SubSeq(p1, 1, Len(p1) - 1) ELSE p1
         IN Ok(IF body = <<".", "*">>
               THEN [start |-> FALSE, end |-> FALSE, lit |-> <<>>]
               ELSE [start |-> start, end |-> end, lit |-> body])

\* Regex::is_match: the literal occurs in s, at the start and at the end
\* when anchored there.
IsMatch(re, s) ==
    \E i \in 1..(Len(s) + 1) :
        LET j == i + Len(re.lit) - 1 IN
        /\ j <= Len(s)
        /\ SubSeq(s, i, j) = re.lit
        /\ re.start => i = 1
        /\ re.end => j = Len(s)

(***************************************************************************)
(* The file system the runs read: the pool of item files a directory is    *)
(* made of, and the auxiliary files.  A path names at most one file.       *)
(***************************************************************************)
ItemObj(id, name, description) ==
    JObj([id |-> JNum(id), name |-> name, description |-> description,
          members |-> JBool(FALSE), team |-> JNum(0),
          stackable |-> JBool(FALSE), value |-> JNum(1)])

File(path, readable, doc) == [path |-> path, readable |-> readable, doc |-> doc]

ItemFiles ==
    { File(Path("1", Some("json")), TRUE,
           Doc(0, ItemObj(1, JStr(<<"s", "w">>), JStr(<<"a">>)))),
      \* the same object as 1.json, laid out differently
      File(Path("1b", Some("json")), TRUE,
           Doc(1, ItemObj(1, JStr(<<"s", "w">>), JStr(<<"a">>)))),
      \* the id of 1.json, without a name
      File(Path("1c", Some("json")), TRUE,
           Doc(0, ItemObj(1, JNull, JStr(<<"a">>)))),
      File(Path("3", Some("json")), TRUE,
           Doc(0, ItemObj(3, JStr(<<"s", "h">>), JNull))),
      File(Path("bad", Some("json")), TRUE, Garbage),
      File(Path("locked", Some("json")), FALSE, Garbage),
      \* a backup of an item that is in no .json file
      File(Path("2", Some("bak")), TRUE,
           Doc(0, ItemObj(2, JStr(<<"s", "w">>), JNull))) }

AuxFiles ==
    { File(Path("ids", Some("json")), TRUE,
           Doc(0, JArr(<<JNum(1), JNum(3)>>))),
      File(Path("tuples", Some("json")), TRUE,
           Doc(0, JArr(<<JArr(<<JNum(2), JStr(<<"s", "w">>)>>),
                         JArr(<<JNum(3), JStr(<<"s", "h">>)>>)>>))),
      File(Path("broken", Some("json")), TRUE, Garbage) }

\* the paths a run can be given: the files above, and a path at which there
\* is no file
AuxPaths == {f.path : f \in AuxFiles} \cup {Path("missing", Some("json"))}

PatternPool == { <<".", "*">>, <<"^", "s", "w">>, <<"(">> }

PrintFormats == {"Basic", "JsonId", "JsonIdNameTuple"}

\* the directories read_dir can find: readable with up to MaxFiles files of
\* the pool, unreadable, or readable with an entry that cannot be read
Dir(status, files) == [status |-> status, files |-> files]
Directories == {Dir("ok", S) : S \in {T \in SUBSET ItemFiles : Cardinality(T) <= MaxFiles}}
NotLooked == Dir("not looked", {})

\* fs::read_to_string
ReadToString(files, path) ==
    IF \E f \in files : f.path = path /\ f.readable
    THEN Ok((CHOOSE f \in files : f.path = path).doc)
    ELSE Err("io")

\* a read_to_string, with the loop that performs it
ReadOp(site, path) == [op |-> "read", site |-> site, path |-> path]
ReadDirOp == [op |-> "read_dir", site |-> "items", path |-> Path("item_definitions", None)]

(***************************************************************************)
(* fetch_items: the work on one directory entry.                           *)
(***************************************************************************)
\* mutant: a set keyed by id alone
InsertById(set, definition) ==
    IF \E d \in set : d.id = definition.id THEN set ELSE set \cup {definition}

\* HashSet::insert under the derived Hash, PartialEq, Eq of ItemDefinition
Insert(set, definition) == set \cup {definition}

\* path.extension().map(|x| x.to_string_lossy().to_string()) == Some("json".to_string())
IsDataFile(path) == Extension(path) = Some("json")

\* mutant: every pattern matches every name
NameMatchesAlways(re, definition) == TRUE

\* pattern.is_match(name.as_deref().unwrap_or(""))
NameMatches(re, definition) == IsMatch(re, UnwrapOr(definition.name, <<>>))

RECURSIVE MatchPatterns(_, _, _)
MatchPatterns(set, definition, pats) ==
    IF pats = <<>> THEN set
    ELSE MatchPatterns(IF NameMatches(Head(pats), definition)
                       THEN Insert(set, definition) ELSE set,
                       definition, Tail(pats))

\* mutant: the id set is never consulted
MatchIdsNever(set, definition, ids) == set

MatchIds(set, definition, ids) ==
    IF definition.id \in ids THEN Insert(set, definition) ELSE set

\* mutant: a file that cannot be read or parsed is skipped
ProcessPathSkipBad(set, path, files, pats, ids) ==
    IF Extension(path) = Some("json")
    THEN LET text == ReadToString(files, path) IN
         IF ~text.ok THEN Ok(set)
         ELSE LET parsed == DeserializeItemDefinition(text.v) IN
              IF ~parsed.ok THEN Ok(set)
              ELSE Ok(MatchIds(MatchPatterns(set, parsed.v, pats), parsed.v, ids))
    ELSE Ok(set)

\* the body of the for loop over filepaths: the items after this entry, or
\* the error the ? operators return
ProcessPath(set, path, files, pats, ids) ==
    IF IsDataFile(path)
    THEN LET text == ReadToString(files, path) IN
         IF ~text.ok THEN Err(text.e)
         ELSE LET parsed == DeserializeItemDefinition(text.v) IN
              IF ~parsed.ok THEN Err(parsed.e)
              ELSE Ok(MatchIds(MatchPatterns(set, parsed.v, pats), parsed.v, ids))
    ELSE Ok(set)

\* the file-system reads ProcessPath performs
ProcessPathIO(path) == IF IsDataFile(path) THEN {ReadOp("items", path)} ELSE {}

\* the whole loop over filepaths, lines 147-165: the set fetch_items
\* returns, or the first error
RECURSIVE FetchLoop(_, _, _, _, _)
FetchLoop(set, paths, files, pats, ids) ==
    IF paths = <<>> THEN Ok(set)
    ELSE LET r == ProcessPath(set, Head(paths), files, pats, ids) IN
         IF r.ok THEN FetchLoop(r.v, Tail(paths), files, pats, ids) ELSE r

(***************************************************************************)
(* print_items: sort and format.                                           *)
(***************************************************************************)
\* mutant: the comparison of the sort turned around
RECURSIVE InsertSortedDesc(_, _)
InsertSortedDesc(sorted, x) ==
    IF sorted = <<>> THEN <<x>>
    ELSE IF sorted[Len(sorted)].id >= x.id THEN Append(sorted, x)
    ELSE Append(InsertSortedDesc(SubSeq(sorted, 1, Len(sorted) - 1), x),
                sorted[Len(sorted)])

\* slice::sort_by_key(|i| i.id): a stable sort, here by insertion
RECURSIVE InsertSorted(_, _)
InsertSorted(sorted, x) ==
    IF sorted = <<>> THEN <<x>>
    ELSE IF sorted[Len(sorted)].id <= x.id THEN Append(sorted, x)
    ELSE Append(InsertSorted(SubSeq(sorted, 1, Len(sorted) - 1), x),
                sorted[Len(sorted)])

\* mutant: the collected items are not sorted
SortNone(s) == s

RECURSIVE SortByKeyId(_)
SortByKeyId(s) ==
    IF s = <<>> THEN <<>>
    ELSE InsertSorted(SortByKeyId(SubSeq(s, 1, Len(s) - 1)), s[Len(s)])

\* One entry of the output: the line "{0} | {1} | {2}" of Basic as the
\* triple of its fields, the element of the JSON array otherwise.
Unnamed == <<"u", "n", "n", "a", "m", "e", "d">>

\* mutant: an absent name is left empty in every format
FormatItemEmptyName(format, item) ==
    CASE format = "Basic" ->
            <<item.id, UnwrapOr(item.name, <<>>), UnwrapOr(item.description, <<>>)>>
      [] format = "JsonId" -> <<item.id>>
      [] format = "JsonIdNameTuple" -> <<item.id, UnwrapOr(item.name, <<>>)>>

FormatItem(format, item) ==
    CASE format = "Basic" ->
            <<item.id, UnwrapOr(item.name, <<>>), UnwrapOr(item.description, <<>>)>>
      [] format = "JsonId" -> <<item.id>>
      [] format = "JsonIdNameTuple" -> <<item.id, UnwrapOr(item.name, Unnamed)>>

FormatItems(format, sorted) ==
    [format |-> format, entries |-> [i \in DOMAIN sorted |-> FormatItem(format, sorted[i])]]

(***************************************************************************)
(* The state machine.                                                      *)
(***************************************************************************)
Log(level, msg, cause) == [level |-> level, msg |-> msg, cause |-> cause]

\* where fetch_items goes once the for loop over `rest` of stage `stage` is
\* at its head: on to the next non-empty loop
AfterAux(stage, rest) ==
    IF rest # <<>> THEN [pc |-> stage, todo |-> rest]
    ELSE IF stage = "ids" /\ id_name_tuples_json # <<>>
    THEN [pc |-> "tuples", todo |-> id_name_tuples_json]
    ELSE [pc |-> "read_dir", todo |-> <<>>]

Init ==
    /\ cmd \in {"print_items", "load_all"}
    /\ dir = NotLooked
    /\ regex_pattern \in
           IF cmd = "print_items" THEN SeqsUpTo(PatternPool, MaxPatterns) ELSE {<<>>}
    /\ ids_json \in
           IF cmd = "print_items" THEN SeqsUpTo(AuxPaths, MaxAuxFiles) ELSE {<<>>}
    /\ id_name_tuples_json \in
           IF cmd = "print_items" THEN SeqsUpTo(AuxPaths, MaxAuxFiles) ELSE {<<>>}
    /\ pc = IF cmd = "print_items" THEN "compile" ELSE "la_read_dir"
    /\ patterns = <<>>
    /\ desired_ids = {}
    /\ todo = <<>>
    /\ filepaths = <<>>
    /\ items = {}
    /\ all_items = <<>>
    /\ sorted_items = <<>>
    /\ io = {}
    /\ stdout = <<>>
    /\ stderr = <<>>
    /\ result = "pending"
    /\ exit_code = None

\* a panic unwinds out of main: nothing is returned to main, the runtime
\* writes the panic message and the process ends with status 101
Panic(logged) ==
    /\ pc' = "exited"
    /\ exit_code' = Some(101)
    /\ stderr' = stderr \o logged \o <<Log("panic", "thread 'main' panicked", "")>>

\* an Err leaves fetch_items and print_items through the ? operators
ReturnErr(e) ==
    /\ pc' = "main"
    /\ result' = e

\* mutant: a pattern that does not compile is dropped
CompileAllLenient(ps) ==
    Ok(LET good == {i \in DOMAIN ps : RegexNew(ps[i]).ok} IN
       [k \in 1..Cardinality(good) |->
           RegexNew(ps[CHOOSE i \in good :
                           Cardinality({j \in good : j < i}) = k - 1]).v])

\* fetch_items, lines 117-127: the patterns compiled in order, collected at
\* once; Err where the closure panics
CompileAll(ps) ==
    IF \A i \in DOMAIN ps : RegexNew(ps[i]).ok
    THEN Ok([i \in DOMAIN ps |-> RegexNew(ps[i]).v])
    ELSE Err("regex")

\* every pattern compiles
CompilePatternsOk ==
    /\ pc = "compile"
    /\ CompileAll(regex_pattern).ok
    /\ patterns' = CompileAll(regex_pattern).v
    /\ LET n == AfterAux("ids", ids_json) IN pc' = n.pc /\ todo' = n.todo
    /\ UNCHANGED <<cmd, regex_pattern, ids_json, id_name_tuples_json, dir, desired_ids,
                   filepaths, items, all_items, sorted_items, io, stdout, stderr,
                   result, exit_code>>

\* fetch_items, lines 120-126: the first pattern that does not compile is
\* logged and the closure panics
CompilePatternsPanic ==
    /\ pc = "compile"
    /\ ~CompileAll(regex_pattern).ok
    /\ Panic(<<Log("error", "could not parse pattern as regular expression", "regex")>>)
    /\ UNCHANGED <<cmd, regex_pattern, ids_json, id_name_tuples_json, dir, patterns,
                   desired_ids, todo, filepaths, items, all_items, sorted_items, io,
                   stdout, result>>

\* the ids of one auxiliary file, read as the stage asks
AuxIds(stage, path) ==
    LET text == ReadToString(AuxFiles, path) IN
    IF ~text.ok THEN Err(text.e)
    ELSE IF stage = "ids"
    THEN LET ids == DeserializeIds(text.v) IN
         IF ids.ok THEN Ok(Range(ids.v)) ELSE Err(ids.e)
    ELSE LET tuples == DeserializeTuples(text.v) IN
         IF tuples.ok THEN Ok({tuples.v[i][1] : i \in DOMAIN tuples.v}) ELSE Err(tuples.e)

\* fetch_items, lines 130-133: one pass of the loop over ids_json
ReadIdsJsonOk ==
    /\ pc = "ids"
    /\ LET r == AuxIds("ids", Head(todo))
           n == AfterAux("ids", Tail(todo))
       IN /\ r.ok
          /\ desired_ids' = desired_ids \cup r.v
          /\ pc' = n.pc /\ todo' = n.todo
    /\ io' = io \cup {ReadOp("ids", Head(todo))}
    /\ UNCHANGED <<cmd, regex_pattern, ids_json, id_name_tuples_json, dir, patterns,
                   filepaths, items, all_items, sorted_items, stdout, stderr, result,
                   exit_code>>

ReadIdsJsonErr ==
    /\ pc = "ids"
    /\ LET r == AuxIds("ids", Head(todo)) IN ~r.ok /\ ReturnErr(r.e)
    /\ io' = io \cup {ReadOp("ids", Head(todo))}
    /\ UNCHANGED <<cmd, regex_pattern, ids_json, id_name_tuples_json, dir, patterns,
                   desired_ids, todo, filepaths, items, all_items, sorted_items, stdout,
                   stderr, exit_code>>

\* fetch_items, lines 135-139: one pass of the loop over id_name_tuples_json
ReadTuplesJsonOk ==
    /\ pc = "tuples"
    /\ LET r == AuxIds("tuples", Head(todo))
           n == AfterAux("tuples", Tail(todo))
       IN /\ r.ok
          /\ desired_ids' = desired_ids \cup r.v
          /\ pc' = n.pc /\ todo' = n.todo
    /\ io' = io \cup {ReadOp("tuples", Head(todo))}
    /\ UNCHANGED <<cmd, regex_pattern, ids_json, id_name_tuples_json, dir, patterns,
                   filepaths, items, all_items, sorted_items, stdout, stderr, result,
                   exit_code>>

ReadTuplesJsonErr ==
    /\ pc = "tuples"
    /\ LET r == AuxIds("tuples", Head(todo)) IN ~r.ok /\ ReturnErr(r.e)
    /\ io' = io \cup {ReadOp("tuples", Head(todo))}
    /\ UNCHANGED <<cmd, regex_pattern, ids_json, id_name_tuples_json, dir, patterns,
                   desired_ids, todo, filepaths, items, all_items, sorted_items, stdout,
                   stderr, exit_code>>

Searching == Log("info", "searching items...", "")

\* fetch_items, lines 141-146: the directory is enumerated, in an order the
\* file system chooses
ReadDirOk ==
    /\ pc = "read_dir"
    /\ \E d \in Directories :
          /\ dir' = d
          /\ \E order \in Perms({f.path : f \in d.files}) :
                /\ filepaths' = order
                /\ pc' = IF order = <<>> THEN "print" ELSE "loop"
    /\ io' = io \cup {ReadDirOp}
    /\ stderr' = Append(stderr, Searching)
    /\ UNCHANGED <<cmd, regex_pattern, ids_json, id_name_tuples_json, patterns,
                   desired_ids, todo, items, all_items, sorted_items, stdout, result,
                   exit_code>>

\* line 143: read_dir(data_dir)? fails
ReadDirErr ==
    /\ pc = "read_dir"
    /\ dir' = Dir("unreadable", {})
    /\ ReturnErr("io")
    /\ io' = io \cup {ReadDirOp}
    /\ stderr' = Append(stderr, Searching)
    /\ UNCHANGED <<cmd, regex_pattern, ids_json, id_name_tuples_json, patterns,
                   desired_ids, todo, filepaths, items, all_items, sorted_items, stdout,
                   exit_code>>

\* line 144: entry.unwrap() on an entry the enumeration could not read
ReadDirEntryPanic ==
    /\ pc = "read_dir"
    /\ dir' = Dir("entry_error", {})
    /\ Panic(<<Searching>>)
    /\ io' = io \cup {ReadDirOp}
    /\ UNCHANGED <<cmd, regex_pattern, ids_json, id_name_tuples_json, patterns,
                   desired_ids, todo, filepaths, items, all_items, sorted_items, stdout,
                   result>>

\* fetch_items, lines 147-163: one pass of the loop over filepaths.  The
\* progress bar (lines 146, 162) draws on the error stream and decides
\* nothing; it is left out.
ProcessPathOk ==
    /\ pc = "loop"
    /\ LET r == ProcessPath(items, Head(filepaths), dir.files, patterns, desired_ids) IN
          /\ r.ok
          /\ items' = r.v
    /\ filepaths' = Tail(filepaths)
    /\ pc' = IF Tail(filepaths) = <<>> THEN "print" ELSE "loop"
    /\ io' = io \cup ProcessPathIO(Head(filepaths))
    /\ UNCHANGED <<cmd, regex_pattern, ids_json, id_name_tuples_json, dir, patterns,
                   desired_ids, todo, all_items, sorted_items, stdout, stderr, result,
                   exit_code>>

ProcessPathErr ==
    /\ pc = "loop"
    /\ LET r == ProcessPath(items, Head(filepaths), dir.files, patterns, desired_ids) IN
          ~r.ok /\ ReturnErr(r.e)
    /\ io' = io \cup ProcessPathIO(Head(filepaths))
    /\ UNCHANGED <<cmd, regex_pattern, ids_json, id_name_tuples_json, dir, patterns,
                   desired_ids, todo, filepaths, items, all_items, sorted_items, stdout,
                   stderr, exit_code>>

\* print_items, lines 84-112, for the format it is called with: the set is
\* collected in its iteration order, sorted, formatted and printed.
\* serde_json::to_string of a Vec<i32> or a Vec<(i32, &str)> cannot fail.
PrintItems ==
    /\ pc = "print"
    /\ \E format \in PrintFormats, collected \in Perms(items) :
          /\ sorted_items' = SortByKeyId(collected)
          /\ stdout' = Append(stdout, FormatItems(format, sorted_items'))
    /\ result' = "ok"
    /\ pc' = "main"
    /\ UNCHANGED <<cmd, regex_pattern, ids_json, id_name_tuples_json, dir, patterns,
                   desired_ids, todo, filepaths, items, all_items, io, stderr, exit_code>>

\* main, line 74
MainOk ==
    /\ pc = "main"
    /\ result = "ok"
    /\ stderr' = Append(stderr, Log("info", "done, command executed successfully!", ""))
    /\ exit_code' = Some(0)
    /\ pc' = "exited"
    /\ UNCHANGED <<cmd, regex_pattern, ids_json, id_name_tuples_json, dir, patterns,
                   desired_ids, todo, filepaths, items, all_items, sorted_items, io,
                   stdout, result>>

\* main, lines 75-78
MainErr ==
    /\ pc = "main"
    /\ result # "ok"
    /\ stderr' = Append(stderr, Log("error", "command execution failed", result))
    /\ exit_code' = Some(1)
    /\ pc' = "exited"
    /\ UNCHANGED <<cmd, regex_pattern, ids_json, id_name_tuples_json, dir, patterns,
                   desired_ids, todo, filepaths, items, all_items, sorted_items, io,
                   stdout, result>>

(***************************************************************************)
(* load_all, called by a library user on the same directory.               *)
(***************************************************************************)
\* one pass of the loop of load_all: every entry is read and parsed
LoadEntry(path, files) ==
    LET text == ReadToString(files, path) IN
    IF ~text.ok THEN Err(text.e) ELSE DeserializeItemDefinition(text.v)

\* line 23: read_dir(dir).unwrap() succeeds
LoadAllReadDir ==
    /\ pc = "la_read_dir"
    /\ \E d \in Directories :
          /\ dir' = d
          /\ \E order \in Perms({f.path : f \in d.files}) :
                /\ filepaths' = order
                /\ pc' = IF order = <<>> THEN "returned" ELSE "la_loop"
                /\ result' = IF order = <<>> THEN "ok" ELSE result
    /\ io' = io \cup {ReadDirOp}
    /\ UNCHANGED <<cmd, regex_pattern, ids_json, id_name_tuples_json, patterns,
                   desired_ids, todo, items, all_items, sorted_items, stdout, stderr,
                   exit_code>>

\* line 23: read_dir(dir).unwrap() panics
LoadAllReadDirPanic ==
    /\ pc = "la_read_dir"
    /\ dir' = Dir("unreadable", {})
    /\ Panic(<<>>)
    /\ io' = io \cup {ReadDirOp}
    /\ UNCHANGED <<cmd, regex_pattern, ids_json, id_name_tuples_json, patterns,
                   desired_ids, todo, filepaths, items, all_items, sorted_items, stdout,
                   result>>

\* line 24: entry? on an entry the enumeration could not read
LoadAllEntryErr ==
    /\ pc = "la_read_dir"
    /\ dir' = Dir("entry_error", {})
    /\ pc' = "returned"
    /\ result' = "io"
    /\ io' = io \cup {ReadDirOp}
    /\ UNCHANGED <<cmd, regex_pattern, ids_json, id_name_tuples_json, patterns,
                   desired_ids, todo, filepaths, items, all_items, sorted_items, stdout,
                   stderr, exit_code>>

\* lines 24-27
LoadAllPush ==
    /\ pc = "la_loop"
    /\ LET r == LoadEntry(Head(filepaths), dir.files) IN
          /\ r.ok
          /\ all_items' = Append(all_items, r.v)
    /\ filepaths' = Tail(filepaths)
    /\ pc' = IF Tail(filepaths) = <<>> THEN "returned" ELSE "la_loop"
    /\ result' = IF Tail(filepaths) = <<>> THEN "ok" ELSE result
    /\ io' = io \cup {ReadOp("items", Head(filepaths))}
    /\ UNCHANGED <<cmd, regex_pattern, ids_json, id_name_tuples_json, dir, patterns,
                   desired_ids, todo, items, sorted_items, stdout, stderr, exit_code>>

\* lines 25-26: the ? operators return the error
LoadAllFail ==
    /\ pc = "la_loop"
    /\ LET r == LoadEntry(Head(filepaths), dir.files) IN
          /\ ~r.ok
          /\ result' = r.e
    /\ pc' = "returned"
    /\ io' = io \cup {ReadOp("items", Head(filepaths))}
    /\ UNCHANGED <<cmd, regex_pattern, ids_json, id_name_tuples_json, dir, patterns,
                   desired_ids, todo, filepaths, items, all_items, sorted_items, stdout,
                   stderr, exit_code>>

Next ==
    \/ CompilePatternsOk
    \/ CompilePatternsPanic
    \/ ReadIdsJsonOk
    \/ ReadIdsJsonErr
    \/ ReadTuplesJsonOk
    \/ ReadTuplesJsonErr
    \/ ReadDirOk
    \/ ReadDirErr
    \/ ReadDirEntryPanic
    \/ ProcessPathOk
    \/ ProcessPathErr
    \/ PrintItems
    \/ MainOk
    \/ MainErr
    \/ LoadAllReadDir
    \/ LoadAllReadDirPanic
    \/ LoadAllEntryErr
    \/ LoadAllPush
    \/ LoadAllFail

Spec == Init /\ [][Next]_vars

(***************************************************************************)
(* What the claims speak of, stated from the inputs of the run and not     *)
(* from the operators of fetch_items.                                      *)
(***************************************************************************)
PrintRun == cmd = "print_items"

HasJsonExtension(f) == f.path.ext = <<"json">>
Parses(f) == f.readable /\ DeserializeItemDefinition(f.doc).ok
RecordOf(f) == DeserializeItemDefinition(f.doc).v

\* the ids an auxiliary path contributes as an id list, as an id/name-tuple list
IdListAt(path) ==
    LET text == ReadToString(AuxFiles, path) IN
    IF text.ok /\ DeserializeIds(text.v).ok THEN Range(DeserializeIds(text.v).v) ELSE {}
TupleListAt(path) ==
    LET text == ReadToString(AuxFiles, path) IN
    IF text.ok /\ DeserializeTuples(text.v).ok
    THEN {DeserializeTuples(text.v).v[i][1] : i \in DOMAIN DeserializeTuples(text.v).v}
    ELSE {}
AuxReadable(path) == ReadToString(AuxFiles, path).ok
IdListOk(path) == AuxReadable(path) /\ DeserializeIds(ReadToString(AuxFiles, path).v).ok
TupleListOk(path) ==
    AuxReadable(path) /\ DeserializeTuples(ReadToString(AuxFiles, path).v).ok

RequestedIds ==
    UNION {IdListAt(ids_json[i]) : i \in DOMAIN ids_json}
    \cup UNION {TupleListAt(id_name_tuples_json[i]) : i \in DOMAIN id_name_tuples_json}

NameText(r) == IF r.name = <<>> THEN <<>> ELSE r.name[1]

SomePatternMatches(r) ==
    \E i \in DOMAIN regex_pattern :
        /\ RegexNew(regex_pattern[i]).ok
        /\ IsMatch(RegexNew(regex_pattern[i]).v, NameText(r))

Satisfies(r) == SomePatternMatches(r) \/ r.id \in RequestedIds

BadPattern == \E i \in DOMAIN regex_pattern : ~RegexNew(regex_pattern[i]).ok

\* fetch_items has returned its set
FetchSucceeded == PrintRun /\ (pc = "print" \/ result = "ok")

\* a step of the run has failed: a pattern did not compile, an auxiliary or
\* record file that was read could not be read or parsed, or the directory
\* or one of its entries could not be read
StepFailed ==
    /\ PrintRun
    /\ \/ BadPattern /\ pc # "compile"
       \/ \E op \in io : op.op = "read" /\ op.site = "ids" /\ ~IdListOk(op.path)
       \/ \E op \in io : op.op = "read" /\ op.site = "tuples" /\ ~TupleListOk(op.path)
       \/ \E op \in io : /\ op.op = "read" /\ op.site = "items"
                         /\ \E f \in dir.files : f.path = op.path /\ ~Parses(f)
       \/ dir.status \in {"unreadable", "entry_error"}

EntryId(entry) == entry[1]

(***************************************************************************)
(* The claims.                                                             *)
(***************************************************************************)

\* C1: every record in the set fetch_items returns is parsed from a file of the
\* directory and satisfies a predicate of the request (a pattern matches its
\* name, absent taken as empty, or its id is in the id set); with no pattern
\* and no id the set is empty.
C1_ResultSelectedFromDirectory ==
    FetchSucceeded =>
        /\ \A r \in items :
              /\ \E f \in dir.files : Parses(f) /\ RecordOf(f) = r
              /\ Satisfies(r)
        /\ items # {} => ~(regex_pattern = <<>> /\ RequestedIds = {})

\* C1 witness: fetch_items returned a non-empty set and left out a record of
\* the directory.
C1_Witness ==
    /\ FetchSucceeded
    /\ items # {}
    /\ \E f \in dir.files : HasJsonExtension(f) /\ Parses(f) /\ RecordOf(f) \notin items

\* C2: after a successful fetch_items, every record of a .json file of the
\* directory that some pattern matches (absent name as empty) or whose id is
\* in the union of the ids of all auxiliary files is in the set.
C2_EverySelectedRecordIncluded ==
    FetchSucceeded =>
        \A f \in dir.files :
            (HasJsonExtension(f) /\ Parses(f) /\ Satisfies(RecordOf(f)))
                => RecordOf(f) \in items

\* C2 witness: a record without a name selected by a pattern alone, next to
\* a record whose id the tuple file gives.
C2_Witness ==
    /\ FetchSucceeded
    /\ ids_json = <<>>
    /\ \E r \in items : r.name = <<>> /\ r.id \notin RequestedIds
    /\ \E r \in items : r.id \in RequestedIds

\* C3: in every format, the entries print_items prints are non-decreasing by id.
C3_OutputSortedById ==
    \A k \in DOMAIN stdout :
        \A i, j \in DOMAIN stdout[k].entries :
            i < j => EntryId(stdout[k].entries[i]) <= EntryId(stdout[k].entries[j])

\* C3 witness: an output of three entries with two different ids.
C3_Witness ==
    /\ stdout # <<>>
    /\ Len(stdout[1].entries) = 3
    /\ EntryId(stdout[1].entries[1]) < EntryId(stdout[1].entries[3])

\* C4: when a step of a print-items run fails nothing is written to standard
\* output; the one print comes after every file is loaded and matched.
C4_NoOutputOnFailure ==
    /\ stdout # <<>> => ~StepFailed
    /\ Len(stdout) <= 1
    /\ stdout # <<>> => (result = "ok" /\ todo = <<>> /\ filepaths = <<>>)

\* C4 witness: the run failed on a record file after other records had
\* already been matched, and has ended.
C4_Witness ==
    /\ StepFailed
    /\ pc = "exited"
    /\ items # {}
    /\ result = "parse"

\* C5: the result is deduplicated by structural equality: every selected
\* record is in the sorted result exactly once, however many predicates
\* select it and however many files hold it, and records that share an id
\* and differ elsewhere are each there.
C5_DedupByStructuralEquality ==
    (PrintRun /\ result = "ok") =>
        /\ \A i, j \in DOMAIN sorted_items :
              i # j => sorted_items[i] # sorted_items[j]
        /\ \A f \in dir.files :
              (HasJsonExtension(f) /\ Satisfies(RecordOf(f))) =>
                  Cardinality({i \in DOMAIN sorted_items : sorted_items[i] = RecordOf(f)}) = 1
        /\ Len(stdout[1].entries) = Len(sorted_items)

\* C5 witness: three files, two of them structurally equal and the third
\* with the same id, all selected by two patterns and by an id of the id
\* list, with a tuple file given as well; two entries come out.
C5_Witness ==
    /\ PrintRun /\ result = "ok"
    /\ Cardinality(dir.files) = 3
    /\ \A f \in dir.files : HasJsonExtension(f) /\ Parses(f)
    /\ \E f, g \in dir.files : f # g /\ RecordOf(f) = RecordOf(g)
    /\ \E f, g \in dir.files : RecordOf(f) # RecordOf(g) /\ RecordOf(f).id = RecordOf(g).id
    /\ Len(regex_pattern) = 2
    /\ \A i \in DOMAIN regex_pattern : regex_pattern[i] = <<".", "*">>
    /\ ids_json # <<>> /\ id_name_tuples_json # <<>>
    /\ RequestedIds = {1, 2, 3}
    /\ Len(sorted_items) = 2

\* what the three formats show of one record
Shown(format, r) ==
    IF format = "Basic"
    THEN <<r.id, IF r.name = <<>> THEN <<>> ELSE r.name[1],
           IF r.description = <<>> THEN <<>> ELSE r.description[1]>>
    ELSE IF format = "JsonId" THEN <<r.id>>
    ELSE <<r.id, IF r.name = <<>> THEN <<"u", "n", "n", "a", "m", "e", "d">> ELSE r.name[1]>>

\* C6: the output has one entry per record of the result set, in the sorted
\* order: id, name and description (absent as empty) in Basic, the id in
\* JSON-ids, id and name (absent as "unnamed") in JSON-id/name-tuples.
C6_FormatterProjects ==
    \A k \in DOMAIN stdout :
        /\ Len(sorted_items) = Cardinality(items)
        /\ Range(sorted_items) = items
        /\ \A i, j \in DOMAIN sorted_items : i < j => sorted_items[i].id <= sorted_items[j].id
        /\ DOMAIN stdout[k].entries = DOMAIN sorted_items
        /\ \A i \in DOMAIN sorted_items :
              stdout[k].entries[i] = Shown(stdout[k].format, sorted_items[i])

\* C6 witness: a record without a name printed as [id, "unnamed"] next to a
\* named record.
C6_Witness ==
    /\ stdout # <<>>
    /\ stdout[1].format = "JsonIdNameTuple"
    /\ Len(stdout[1].entries) = 2
    /\ stdout[1].entries[1][2] = <<"u", "n", "n", "a", "m", "e", "d">>
    /\ stdout[1].entries[2][2] = <<"s", "h">>

\* C7: the record loader skips every directory entry whose extension is not
\* json: such a file is never read, contributes no record and never makes
\* the load fail.
C7_OtherExtensionsSkipped ==
    \A f \in dir.files :
        ~HasJsonExtension(f) =>
            /\ \A op \in io : op.path # f.path
            /\ (/\ Parses(f)
                /\ \A g \in dir.files :
                      (HasJsonExtension(g) /\ Parses(g)) => RecordOf(g) # RecordOf(f))
               => RecordOf(f) \notin items \cup Range(all_items)
            /\ (result \notin {"pending", "ok"} /\ filepaths # <<>>)
               => Head(filepaths) # f.path

\* C8: every failure of a print-items run is returned to main, which logs
\* the error with its cause and exits with a non-zero status; the status is
\* 0 only when the command succeeded.
C8_EveryErrorReachesMain ==
    (PrintRun /\ pc = "exited") =>
        /\ exit_code = <<0>> <=> ~StepFailed
        /\ StepFailed =>
              /\ result \in {"io", "parse", "regex"}
              /\ stderr[Len(stderr)].level = "error"
              /\ stderr[Len(stderr)].msg = "command execution failed"
              /\ stderr[Len(stderr)].cause = result

\* C9: when a pattern does not compile, the run fails before any I/O: no
\* auxiliary file is read, the directory is not enumerated, no record file
\* is read, wherever the pattern stands in the list.
C9_InvalidPatternBeforeIO ==
    (PrintRun /\ BadPattern) =>
        /\ io = {}
        /\ dir = NotLooked
        /\ pc \in {"compile", "exited"}
        /\ pc = "exited" => (exit_code # <<0>> /\ exit_code # <<>> /\ stdout = <<>>)

\* C9 witness: the run has ended on an invalid pattern that stood after a
\* valid one, with auxiliary files given.
C9_Witness ==
    /\ PrintRun /\ pc = "exited"
    /\ Len(regex_pattern) = 2
    /\ RegexNew(regex_pattern[1]).ok /\ ~RegexNew(regex_pattern[2]).ok
    /\ ids_json # <<>> /\ id_name_tuples_json # <<>>

\* the directory as fetch_items would find it in the order `order`
SetInOrder(order) == FetchLoop({}, order, dir.files, patterns, desired_ids)
\* the text print_items would print had the set been iterated as `collected`
TextInOrder(collected) == FormatItems(stdout[1].format, SortByKeyId(collected))

\* C10 as claimed: for the same directory and request, every enumeration
\* order of the files gives the set fetch_items returned, and every
\* iteration order of that set gives the text that was printed, also when
\* two records of the result share an id.
C10_OrderIndependent ==
    PrintRun =>
        /\ pc = "print" =>
              \A order \in Perms({f.path : f \in dir.files}) :
                  SetInOrder(order).ok /\ SetInOrder(order).v = items
        /\ stdout # <<>> =>
              \A collected \in Perms(items) : TextInOrder(collected) = stdout[1]

\* records of the result that share an id look the same in the format printed
TiesShowTheSame ==
    \A r, t \in items :
        r.id = t.id => Shown(stdout[1].format, r) = Shown(stdout[1].format, t)

\* C10 amended: every enumeration order gives the set fetch_items returned;
\* every iteration order of that set gives the text that was printed
\* provided the records of the result that share an id are shown the same
\* in the format printed (always so when the ids are unique).
C10_OrderIndependentUpToTies ==
    PrintRun =>
        /\ pc = "print" =>
              \A order \in Perms({f.path : f \in dir.files}) :
                  SetInOrder(order).ok /\ SetInOrder(order).v = items
        /\ (stdout # <<>> /\ TiesShowTheSame) =>
              \A collected \in Perms(items) : TextInOrder(collected) = stdout[1]

\* C10 witness: three records printed from three files, two of them with
\* the same id and shown the same.
C10_Witness ==
    /\ PrintRun /\ stdout # <<>>
    /\ Cardinality(dir.files) = 3
    /\ Cardinality(items) = 3
    /\ TiesShowTheSame
    /\ \E r, t \in items : r # t /\ r.id = t.id

====
